---- MODULE Spec2Model ----
(***************************************************************************)
(* Mission Progression Engine of Forgotten_Ruin_MUD.                       *)
(*                                                                         *)
(* A PlayerMission is a Django model instance: a Python object held by a   *)
(* caller (pm[h]) and a database row (db).  A method mutates the object    *)
(* and save() copies every field of the object to the row.  A method that  *)
(* raises leaves the object as mutated so far and the row as last saved.   *)
(* db2 is the row of a second instance of the same player and mission,     *)
(* history the player's rows of earlier instances.                         *)
(***************************************************************************)
EXTENDS Integers, Sequences, FiniteSets, TLC

VARIABLES mission, player, pm, db, now, applied, req, db2, history

vars == <<mission, player, pm, db, now, applied, req, db2, history>>

(***************************************************************************)
(* Bounds of the model                                                     *)
(***************************************************************************)
MaxTicks == 1
MaxChoices == 1
MaxApplied == 2

TickSeconds == 60 * 60

\* null of a nullable DateTimeField / IntegerField
None == -1

(***************************************************************************)
(* Mission definitions (game/models/mission.py, create_example_missions.py)*)
(***************************************************************************)
Act1Objectives ==
    << [key |-> "scout", required |-> TRUE],
       [key |-> "report", required |-> TRUE],
       [key |-> "loot", required |-> FALSE] >>

\* an objective written without a 'required' entry
Act2Objectives == << [key |-> "breach"] >>

Act3Objectives == << [key |-> "extract", required |-> TRUE] >>

ObjectiveKeys == {"scout", "report", "loot", "breach", "extract"}

\* what a caller may pass: the mission's keys and one it does not define
RequestKeys == ObjectiveKeys \cup {"bogus"}

EventKeys == {"ambush"}

MissionBase ==
    [ key |-> "recon",
      is_public |-> TRUE,
      required_level |-> 1,
      required_squad_size |-> 2,
      act1_objectives |-> Act1Objectives,
      act2_objectives |-> Act2Objectives,
      act3_objectives |-> Act3Objectives,
      reward_xp |-> 500,
      reward_currency |-> 100,
      reward_items |-> << [item_key |-> "tactical_binoculars", quantity |-> 1] >>,
      failure_consequences |-> {"reputation_loss"},
      time_limit |-> 1800,
      can_fail |-> TRUE,
      can_abandon |-> TRUE,
      is_repeatable |-> FALSE,
      cooldown_hours |-> 0,
      required_missions_completed |-> << >>,
      required_items |-> << >> ]

Missions ==
    { MissionBase,
      [MissionBase EXCEPT !.key = "supply", !.reward_xp = 0, !.time_limit = None,
                          !.can_abandon = FALSE],
      [MissionBase EXCEPT !.key = "memory", !.is_public = FALSE, !.reward_xp = 0],
      [MissionBase EXCEPT !.key = "vigil", !.reward_xp = 0, !.reward_currency = 0,
                          !.reward_items = << >>, !.failure_consequences = {},
                          !.can_fail = FALSE],
      [MissionBase EXCEPT !.key = "veteran", !.required_level = 5,
                          !.reward_xp = 0, !.time_limit = None] }

(***************************************************************************)
(* Players (game/models/player.py, game/models/squad.py)                   *)
(***************************************************************************)
PlayerBase ==
    [ level |-> 3,
      has_squad |-> TRUE,
      members |-> << 100, 45, 0 >>,
      experience |-> 0,
      currency |-> 0,
      explosives |-> 2 ]

Players ==
    { PlayerBase,
      [PlayerBase EXCEPT !.has_squad = FALSE, !.members = << >>] }

(***************************************************************************)
(* PlayerMission: field defaults (PlayerMission.objects.create(            *)
(* status='available'))                                                    *)
(***************************************************************************)
NewPlayerMission ==
    [ status |-> "available",
      current_act |-> 0,
      accepted_at |-> None,
      started_at |-> None,
      completed_at |-> None,
      time_limit_expires |-> None,
      objectives_completed |-> {},
      events_triggered |-> << >>,
      choices_made |-> << >>,
      success_level |-> "null",
      completion_notes |-> "",
      rewards_claimed |-> FALSE,
      xp_awarded |-> 0,
      currency_awarded |-> 0,
      items_awarded |-> << >> ]

\* no row: the instance is not created yet
NoRow == [NewPlayerMission EXCEPT !.status = "none"]

Handles == {1, 2}

(***************************************************************************)
(* A frame is the state a method call works on: the object (self), the     *)
(* row, the player, the count of failure-consequence applications, and     *)
(* the call's outcome (ok/msg as returned, exc the exception raised).      *)
(***************************************************************************)
FrameOf(self, row, pl, fc) ==
    [ self |-> self, row |-> row, pl |-> pl, fc |-> fc, rest |-> {},
      ok |-> FALSE, msg |-> "", exc |-> "" ]

\* what PlayerMission.objects.filter(player=player, ...) reads of a row
Summary(r) ==
    [mission |-> mission.key, status |-> r.status,
     completed_at |-> r.completed_at]

\* a call on the instance of row db; rest are the player's other rows
Frame(self) ==
    [FrameOf(self, db, player, applied) EXCEPT
        !.rest = history \cup {Summary(db2)}]

\* a call on the instance of row db2
Frame2(self) ==
    [FrameOf(self, db2, player, applied) EXCEPT
        !.rest = history \cup {Summary(db)}]

\* the caller goes on with the same object after a call returned or raised
Again(f) == [FrameOf(f.self, f.row, f.pl, f.fc) EXCEPT !.rest = f.rest]

Return(f, ok, msg) == [f EXCEPT !.ok = ok, !.msg = msg]

Raise(f, e) == [f EXCEPT !.ok = FALSE, !.msg = "", !.exc = e]

\* Model.save(): every field of the object is written to the row
save(f) == [f EXCEPT !.row = f.self]

(***************************************************************************)
(* game/models/player.py                                                   *)
(***************************************************************************)
\* Player.gain_experience: experience += amount; save(update_fields)
gain_experience(f, amount) ==
    [f EXCEPT !.pl.experience = @ + amount]

\* self.player.gain_xp(...): Player defines gain_experience and no gain_xp,
\* so the attribute lookup raises AttributeError before anything is granted
gain_xp(f, amount) == Raise(f, "AttributeError")

(***************************************************************************)
(* game/models/player_mission.py                                           *)
(***************************************************************************)
\* obj.get('required', True)
get_required(obj) ==
    IF "required" \in DOMAIN obj THEN obj.required ELSE TRUE

\* the reward_items loop: Item.objects.create(..., player=, location=) names
\* fields Item does not have (owner_player, room), Model.__init__ raises
\* TypeError inside the try, the except swallows it: nothing is appended
awarded_items(f) == << >>

_award_rewards_NoFlag(f) ==
    LET f1 == IF mission.reward_xp > 0
              THEN LET g == gain_xp(f, mission.reward_xp)
                   IN IF g.exc # "" THEN g
                      ELSE [g EXCEPT !.self.xp_awarded = mission.reward_xp]
              ELSE f
        f2 == IF mission.reward_currency > 0
              THEN [f1 EXCEPT !.pl.currency = @ + mission.reward_currency,
                              !.self.currency_awarded = mission.reward_currency]
              ELSE f1
        f3 == [f2 EXCEPT !.self.items_awarded = awarded_items(f2)]
    IN IF f1.exc # "" THEN f1 ELSE save(f3)

_award_rewards(f) ==
    LET f1 == IF mission.reward_xp > 0
              THEN LET g == gain_xp(f, mission.reward_xp)
                   IN IF g.exc # "" THEN g
                      ELSE [g EXCEPT !.self.xp_awarded = mission.reward_xp]
              ELSE f
        \* hasattr(self.player, 'currency') is true: Player.currency is a field
        f2 == IF mission.reward_currency > 0
              THEN [f1 EXCEPT !.pl.currency = @ + mission.reward_currency,
                              !.self.currency_awarded = mission.reward_currency]
              ELSE f1
        f3 == [f2 EXCEPT !.self.items_awarded = awarded_items(f2)]
        f4 == [f3 EXCEPT !.self.rewards_claimed = TRUE]
    IN IF f1.exc # "" THEN f1 ELSE save(f4)

_complete_mission(f, success_level) ==
    LET f1 == [f EXCEPT !.self.status = "completed",
                        !.self.completed_at = now,
                        !.self.success_level = success_level,
                        !.self.current_act = 4]
        f2 == IF mission.is_public /\ ~f1.self.rewards_claimed
              THEN _award_rewards(f1)
              ELSE f1
    IN IF f2.exc # "" THEN f2 ELSE save(f2)

start_act_Restamp(f, act_number) ==
    IF f.self.current_act >= act_number
    THEN Return(f, FALSE, "Act already started or completed")
    ELSE Raise(save([f EXCEPT !.self.current_act = act_number,
                              !.self.started_at = now,
                              !.self.status = "in_progress"]),
               "AttributeError")

\* the return value names self.mission.get_act_title(act_number); Mission has
\* no get_act_title, so after save() the call raises AttributeError
start_act(f, act_number) ==
    IF f.self.current_act >= act_number
    THEN Return(f, FALSE, "Act already started or completed")
    ELSE LET f1 == [f EXCEPT !.self.current_act = act_number]
             f2 == IF act_number = 1 /\ f1.self.started_at = None
                   THEN [f1 EXCEPT !.self.started_at = now,
                                   !.self.status = "in_progress"]
                   ELSE f1
         IN Raise(save(f2), "AttributeError")

act_objectives(f) ==
    IF f.self.current_act = 1 THEN mission.act1_objectives
    ELSE IF f.self.current_act = 2 THEN mission.act2_objectives
    ELSE IF f.self.current_act = 3 THEN mission.act3_objectives
    ELSE << >>

all_complete_EveryObjective(f) ==
    LET objs == act_objectives(f)
    IN \A i \in 1..Len(objs) : objs[i].key \in f.self.objectives_completed

all_complete(f) ==
    LET objs == act_objectives(f)
    IN \A i \in 1..Len(objs) :
          get_required(objs[i]) => objs[i].key \in f.self.objectives_completed

\* a variant that goes on to evaluate the act it has just entered
_check_act_completion_Cascade(f) ==
    LET once(g) ==
            IF g.self.current_act = 0
            THEN start_act(g, 1)
            ELSE IF all_complete(g)
                 THEN IF g.self.current_act < 3
                      THEN start_act(g, g.self.current_act + 1)
                      ELSE _complete_mission(g, "full")
                 ELSE g
        f1 == once(f)
    IN IF f1.self.current_act > f.self.current_act /\ f1.self.current_act < 4
       THEN once(f1)
       ELSE f1

_check_act_completion(f) ==
    IF f.self.current_act = 0
    THEN start_act(f, 1)
    ELSE IF all_complete(f)
         THEN IF f.self.current_act < 3
              THEN start_act(f, f.self.current_act + 1)
              ELSE _complete_mission(f, "full")
         ELSE f

complete_objective_NoDuplicateCheck(f, objective_key) ==
    IF f.self.status \notin {"active", "in_progress"}
    THEN Return(f, FALSE, "Mission is not active")
    ELSE LET f1 == save([f EXCEPT !.self.objectives_completed =
                                        @ \cup {objective_key}])
             f2 == _check_act_completion(f1)
         IN IF f2.exc # "" THEN f2
            ELSE Return(f2, TRUE, "Objective completed")

\* objectives_completed maps a key to True and nothing else is ever stored:
\* the dict is the set of its keys
complete_objective(f, objective_key) ==
    IF f.self.status \notin {"active", "in_progress"}
    THEN Return(f, FALSE, "Mission is not active")
    ELSE IF objective_key \in f.self.objectives_completed
    THEN Return(f, FALSE, "Objective already completed")
    ELSE LET f1 == save([f EXCEPT !.self.objectives_completed =
                                        @ \cup {objective_key}])
             f2 == _check_act_completion(f1)
         IN IF f2.exc # "" THEN f2
            ELSE Return(f2, TRUE, "Objective completed")

\* a stub in the source (pass); the frame counts its invocations
_apply_failure_consequences(f) == [f EXCEPT !.fc = @ + 1]

fail_mission_AnyMission(f, reason) ==
    IF ~mission.can_fail
    THEN Return(f, FALSE, "This mission cannot be failed")
    ELSE LET f1 == [f EXCEPT !.self.status = "failed",
                             !.self.completed_at = now,
                             !.self.success_level = "failure",
                             !.self.completion_notes = reason]
             f2 == IF mission.failure_consequences # {}
                   THEN _apply_failure_consequences(f1)
                   ELSE f1
         IN Return(save(f2), TRUE, "Mission failed: " \o reason)

fail_mission(f, reason) ==
    IF ~mission.can_fail
    THEN Return(f, FALSE, "This mission cannot be failed")
    ELSE LET f1 == [f EXCEPT !.self.status = "failed",
                             !.self.completed_at = now,
                             !.self.success_level = "failure",
                             !.self.completion_notes = reason]
             f2 == IF mission.is_public /\ mission.failure_consequences # {}
                   THEN _apply_failure_consequences(f1)
                   ELSE f1
         IN Return(save(f2), TRUE, "Mission failed: " \o reason)

abandon_mission_Unguarded(f) ==
    Return(save([f EXCEPT !.self.status = "abandoned",
                          !.self.completed_at = now]),
           TRUE, "Mission abandoned")

abandon_mission(f) ==
    IF ~mission.can_abandon
    THEN Return(f, FALSE, "This mission cannot be abandoned")
    ELSE Return(save([f EXCEPT !.self.status = "abandoned",
                               !.self.completed_at = now]),
                TRUE, "Mission abandoned")

check_time_limit_ReportOnly(f) ==
    IF f.self.time_limit_expires # None /\ now > f.self.time_limit_expires
    THEN Return(f, TRUE, "")
    ELSE Return(f, FALSE, "")

\* returns a bare bool; fail_mission's own result is dropped
check_time_limit(f) ==
    IF f.self.time_limit_expires # None /\ now > f.self.time_limit_expires
    THEN Return(fail_mission(f, "Time limit exceeded"), TRUE, "")
    ELSE Return(f, FALSE, "")

InSeq(x, s) == \E i \in 1..Len(s) : s[i] = x

trigger_event_NoDuplicateCheck(f, event_key) ==
    Return(save([f EXCEPT !.self.events_triggered = Append(@, event_key)]),
           TRUE, "Event triggered")

trigger_event(f, event_key) ==
    IF InSeq(event_key, f.self.events_triggered)
    THEN Return(f, FALSE, "Event already triggered")
    ELSE Return(save([f EXCEPT !.self.events_triggered = Append(@, event_key)]),
                TRUE, "Event triggered")

make_choice_OnePerEvent(f, event_key, choice_text, outcome_key) ==
    LET choice_record == [ event_key |-> event_key,
                           choice |-> choice_text,
                           outcome |-> outcome_key,
                           timestamp |-> ToString(now) ]
        others == SelectSeq(f.self.choices_made,
                            LAMBDA c : c.event_key # event_key)
    IN Return(save([f EXCEPT !.self.choices_made =
                                 Append(others, choice_record)]),
              TRUE, "Choice recorded")

make_choice(f, event_key, choice_text, outcome_key) ==
    LET choice_record == [ event_key |-> event_key,
                           choice |-> choice_text,
                           outcome |-> outcome_key,
                           timestamp |-> ToString(now) ]
    IN Return(save([f EXCEPT !.self.choices_made = Append(@, choice_record)]),
              TRUE, "Choice recorded")

(***************************************************************************)
(* game/models/mission.py: Mission.can_player_start                        *)
(***************************************************************************)
\* PlayerMission.objects.filter(player=player): the rows of this player
player_missions(f) == {Summary(f.row)} \cup f.rest

alive_members(pl) == { i \in 1..Len(pl.members) : pl.members[i] > 0 }

Max(S) == CHOOSE x \in S : \A y \in S : y <= x

can_player_start(pl, rows) ==
    LET mine == { r \in rows : r.mission = mission.key }
        done == { r \in mine : r.status = "completed" }
        cooldown_end == Max({ r.completed_at : r \in done })
                          + mission.cooldown_hours * 3600
        missing == { i \in 1..Len(mission.required_missions_completed) :
                       ~\E r \in rows :
                           /\ r.mission = mission.required_missions_completed[i]
                           /\ r.status = "completed" }
        first == CHOOSE i \in missing : \A j \in missing : i <= j
        Fail(m) == [ok |-> FALSE, msg |-> m, exc |-> ""]
    IN  IF pl.level < mission.required_level
        THEN Fail("Requires level " \o ToString(mission.required_level))
        \* player.squad is the reverse side of Squad.player (OneToOneField):
        \* without a Squad row the access raises RelatedObjectDoesNotExist,
        \* so the elif on required_squad_size > 1 is never evaluated
        ELSE IF ~pl.has_squad
        THEN [ok |-> FALSE, msg |-> "", exc |-> "RelatedObjectDoesNotExist"]
        ELSE IF Cardinality(alive_members(pl)) < mission.required_squad_size
        THEN Fail("Requires " \o ToString(mission.required_squad_size)
                    \o " squad members")
        ELSE IF \E r \in mine : r.status \in {"active", "in_progress"}
        THEN Fail("Mission already in progress")
        ELSE IF ~mission.is_repeatable /\ done # {}
        THEN Fail("Mission already completed")
        ELSE IF /\ mission.is_repeatable /\ done # {}
                /\ mission.cooldown_hours > 0 /\ now < cooldown_end
        THEN Fail("On cooldown for "
                    \o ToString((cooldown_end - now) \div 3600) \o " more hours")
        ELSE IF missing # {}
        THEN Fail("Requires completion of: "
                    \o mission.required_missions_completed[first])
        \* Item.objects.filter(player=player, key=...): Item has owner_player
        \* and no player field, the filter raises FieldError
        ELSE IF mission.required_items # << >>
        THEN [ok |-> FALSE, msg |-> "", exc |-> "FieldError"]
        ELSE [ok |-> TRUE, msg |-> "Requirements met", exc |-> ""]

(***************************************************************************)
(* game/models/player_mission.py: PlayerMission.accept                     *)
(***************************************************************************)
\* 'squad_name': self.player.squad.name -- Squad has squad_name and no name
squad_snapshot(f) ==
    IF ~f.pl.has_squad THEN Raise(f, "RelatedObjectDoesNotExist")
    ELSE Raise(f, "AttributeError")

\* Item.objects.filter(player=self.player, ...) raises FieldError
consume_required_items(f) ==
    IF \E i \in 1..Len(mission.required_items) :
           "consumed" \in DOMAIN mission.required_items[i]
             /\ mission.required_items[i].consumed
    THEN Raise(f, "FieldError")
    ELSE f

accept_AnyStatus(f) ==
    LET c == can_player_start(f.pl, player_missions(f))
        f1 == [f EXCEPT !.self.status = "active",
                        !.self.accepted_at = now,
                        !.self.current_act = 0]
        f2 == IF mission.time_limit # None /\ mission.time_limit # 0
              THEN [f1 EXCEPT !.self.time_limit_expires = now + mission.time_limit]
              ELSE f1
        f3 == squad_snapshot(f2)
        f4 == consume_required_items(f3)
    IN IF c.exc # "" THEN Raise(f, c.exc)
       ELSE IF ~c.ok THEN Return(f, FALSE, c.msg)
       ELSE IF f3.exc # "" THEN f3
       ELSE IF f4.exc # "" THEN f4
       ELSE Return(save(f4), TRUE, "Mission accepted: " \o mission.key)

accept(f) ==
    IF f.self.status # "available"
    THEN Return(f, FALSE, "Mission already accepted")
    ELSE LET c == can_player_start(f.pl, player_missions(f))
             f1 == [f EXCEPT !.self.status = "active",
                             !.self.accepted_at = now,
                             !.self.current_act = 0]
             f2 == IF mission.time_limit # None /\ mission.time_limit # 0
                   THEN [f1 EXCEPT !.self.time_limit_expires =
                                       now + mission.time_limit]
                   ELSE f1
             f3 == squad_snapshot(f2)
             f4 == consume_required_items(f3)
         IN IF c.exc # "" THEN Raise(f, c.exc)
            ELSE IF ~c.ok THEN Return(f, FALSE, c.msg)
            ELSE IF f3.exc # "" THEN f3
            ELSE IF f4.exc # "" THEN f4
            ELSE Return(save(f4), TRUE, "Mission accepted: " \o mission.key)

(***************************************************************************)
(* api/v1/mission_views.py: MissionObjectiveCompleteView.post after the    *)
(* instance was fetched                                                    *)
(***************************************************************************)
objective_complete_view(f, objective_key) ==
    LET f1 == check_time_limit(f)
    IN IF f1.self.status \notin {"active", "in_progress"}
       THEN Return(f1, FALSE, "Mission is not active")
       ELSE complete_objective(Again(f1), objective_key)

IdleRequest == [pc |-> "idle", key |-> "", ok |-> FALSE, exc |-> ""]

(***************************************************************************)
(* Calls.  Commit(h, f) stores what the call on handle h left behind.      *)
(***************************************************************************)
Commit(h, f) ==
    /\ pm' = [pm EXCEPT ![h] = f.self]
    /\ db' = f.row
    /\ player' = f.pl
    /\ applied' = f.fc
    /\ UNCHANGED <<mission, now, req, db2, history>>

\* accept() raises in every state that passes its checks (squad_snapshot),
\* after it has set status, accepted_at, current_act and time_limit_expires
\* on the object and before its save(): the row stays as created.  The
\* caller that goes on with the same object (Again) holds an active
\* instance, and the next call that saves writes it to the row.
Accept(h) ==
    /\ h \in Handles
    /\ Commit(h, accept(Frame(pm[h])))

CompleteObjective(h) ==
    /\ h \in Handles
    /\ \E k \in RequestKeys :
          Commit(h, complete_objective(Frame(pm[h]), k))

FailMission(h) ==
    /\ applied < MaxApplied
    /\ Commit(h, fail_mission(Frame(pm[h]), "Squad lost"))

AbandonMission(h) ==
    /\ h \in Handles
    /\ Commit(h, abandon_mission(Frame(pm[h])))

CheckTimeLimit(h) ==
    /\ applied < MaxApplied
    /\ Commit(h, check_time_limit(Frame(pm[h])))

TriggerEvent(h) ==
    /\ h \in Handles
    /\ \E e \in EventKeys :
          Commit(h, trigger_event(Frame(pm[h]), e))

MakeChoice(h) ==
    /\ Len(pm[h].choices_made) < MaxChoices
    /\ \E e \in EventKeys :
        Commit(h, make_choice(Frame(pm[h]), e, "Fight through", "fought"))

\* a caller fetches the instance again (get_object_or_404 in the views)
Reload(h) ==
    /\ pm' = [pm EXCEPT ![h] = db]
    /\ UNCHANGED <<mission, player, db, now, applied, req, db2, history>>

\* timezone.now() moves on
Tick ==
    /\ now < MaxTicks * TickSeconds
    /\ now' = now + TickSeconds
    /\ UNCHANGED <<mission, player, pm, db, applied, req, db2, history>>

Init ==
    /\ mission \in Missions
    /\ player \in Players
    /\ db = NewPlayerMission
    /\ pm = [h \in Handles |-> NewPlayerMission]
    /\ now = 0
    /\ applied = 0
    /\ req = [h \in Handles |-> IdleRequest]
    /\ db2 = NoRow
    /\ history = {}

\* one caller working on one instance
Next ==
    \/ Accept(1)
    \/ CompleteObjective(1)
    \/ FailMission(1)
    \/ AbandonMission(1)
    \/ CheckTimeLimit(1)
    \/ TriggerEvent(1)
    \/ MakeChoice(1)
    \/ Reload(1)
    \/ Tick

Spec == Init /\ [][Next]_vars

(***************************************************************************)
(* Two requests on one instance.  The server runs each request in its own  *)
(* thread with its own object; nothing locks the row (no select_for_update,*)
(* no transaction.atomic in the views), so the fetch of one request and    *)
(* the save of another interleave freely.                                  *)
(***************************************************************************)
MaxPrelude == 2

RECURSIVE Played(_, _)
\* the instance after accept() and the direct calls complete_objective(k),
\* k along ks, on the object that was accepted
Played(f, ks) ==
    IF ks = << >> THEN f
    ELSE Played(complete_objective(Again(f), Head(ks)), Tail(ks))

Preludes ==
    { ks \in UNION { [1..n -> RequestKeys] : n \in 0..MaxPrelude } :
        \A i, j \in 1..Len(ks) : i # j => ks[i] # ks[j] }

InitConc ==
    /\ mission \in Missions
    /\ now = 0
    /\ \E p \in Players, ks \in Preludes :
          LET r == Played(accept(FrameOf(NewPlayerMission, NewPlayerMission, p, 0)),
                          ks)
          IN /\ db = r.row
             /\ player = r.pl
             /\ applied = r.fc
    /\ pm = [h \in Handles |-> NewPlayerMission]
    /\ req = [h \in Handles |-> IdleRequest]
    /\ db2 = NoRow
    /\ history = {}

\* get_object_or_404(PlayerMission, id=..., player=player)
Fetch(h) ==
    /\ req[h].pc = "idle"
    /\ \E k \in RequestKeys :
          req' = [req EXCEPT ![h] = [IdleRequest EXCEPT !.pc = "fetched", !.key = k]]
    /\ pm' = [pm EXCEPT ![h] = db]
    /\ UNCHANGED <<mission, player, db, now, applied, db2, history>>

Run(h) ==
    /\ req[h].pc = "fetched"
    /\ LET f == objective_complete_view(Frame(pm[h]), req[h].key)
       IN /\ pm' = [pm EXCEPT ![h] = f.self]
          /\ db' = f.row
          /\ player' = f.pl
          /\ applied' = f.fc
          /\ req' = [req EXCEPT ![h] = [@ EXCEPT !.pc = "done", !.ok = f.ok,
                                                 !.exc = f.exc]]
    /\ UNCHANGED <<mission, now, db2, history>>

NextConc ==
    \/ \E h \in Handles : Fetch(h)
    \/ \E h \in Handles : Run(h)

SpecConc == InitConc /\ [][NextConc]_vars

(***************************************************************************)
(* Properties.  Under Spec the instance is the object pm[1] and its row    *)
(* db.  Calls is what each public operation would do in the current state, *)
(* for every input the actions draw.                                       *)
(***************************************************************************)
Terminal == {"completed", "failed", "abandoned"}

Calls ==
    { [op |-> "accept", arg |-> "", f |-> accept(Frame(pm[1]))],
      [op |-> "abandon_mission", arg |-> "", f |-> abandon_mission(Frame(pm[1]))],
      [op |-> "fail_mission", arg |-> "",
       f |-> fail_mission(Frame(pm[1]), "Squad lost")],
      [op |-> "check_time_limit", arg |-> "", f |-> check_time_limit(Frame(pm[1]))] }
    \cup { [op |-> "complete_objective", arg |-> k,
            f |-> complete_objective(Frame(pm[1]), k)] : k \in RequestKeys }
    \cup { [op |-> "trigger_event", arg |-> e,
            f |-> trigger_event(Frame(pm[1]), e)] : e \in EventKeys }
    \cup { [op |-> "make_choice", arg |-> e,
            f |-> make_choice(Frame(pm[1]), e, "Fight through", "fought")] :
            e \in EventKeys }

\* the call stored its key: it returned success, or raised after its save()
Recorded(f) == f.ok \/ f.exc # ""

\* C1: once the instance's status is completed, failed or abandoned, no
\* operation (accept, complete_objective, trigger_event, make_choice,
\* abandon_mission, fail_mission, check_time_limit) changes the status
\* again, neither on the object nor on the row.
C1_TerminalAbsorbing ==
    \A c \in Calls :
        /\ pm[1].status \in Terminal => c.f.self.status = pm[1].status
        /\ db.status \in Terminal => c.f.row.status = db.status

\* C2: rewards_claimed never goes back to false, on the object or the row; a
\* call changes the player's XP or currency only in the one step that takes
\* rewards_claimed from false to true, so once it is true no call grants
\* anything more, and the totals granted never exceed the mission's rewards.
C2_RewardsSettledOnce ==
    /\ pm[1].rewards_claimed => db.rewards_claimed
    /\ player.experience <= PlayerBase.experience + mission.reward_xp
    /\ player.currency <= PlayerBase.currency + mission.reward_currency
    /\ \A c \in Calls :
        /\ pm[1].rewards_claimed => c.f.self.rewards_claimed
        /\ db.rewards_claimed => c.f.row.rewards_claimed
        /\ c.f.pl # player =>
              /\ ~pm[1].rewards_claimed /\ ~db.rewards_claimed
              /\ c.f.self.rewards_claimed /\ c.f.row.rewards_claimed
        /\ pm[1].rewards_claimed => c.f.pl = player

C2_Witness ==
    /\ db.status = "completed"
    /\ db.rewards_claimed
    /\ mission.reward_currency > 0
    /\ player.currency = PlayerBase.currency + mission.reward_currency

\* C3: when two complete_objective requests with different keys on one
\* instance have both been processed and both answered "Objective
\* completed", both keys are in the row's objectives_completed.
C3_BothKeysKept ==
    ( /\ req[1].pc = "done" /\ req[2].pc = "done"
      /\ req[1].key # req[2].key
      /\ req[1].ok /\ req[2].ok )
    => {req[1].key, req[2].key} \subseteq db.objectives_completed

C5_TerminalRejects ==
    pm[1].status \in Terminal =>
        \A c \in Calls :
            c.op \in {"complete_objective", "trigger_event", "make_choice"} =>
                /\ ~c.f.ok
                /\ c.f.self.objectives_completed = pm[1].objectives_completed
                /\ c.f.self.events_triggered = pm[1].events_triggered
                /\ c.f.self.choices_made = pm[1].choices_made

\* the second of two consecutive complete_objective(k) calls on the object
Second(f1, k) == complete_objective(Again(f1), k)

\* C6 as claimed: after a complete_objective(k) that returned success, a
\* second complete_objective(k) returns the failure "Objective already
\* completed" and changes neither the object nor the row.
C6_SecondAlreadyCompleted ==
    \A k \in RequestKeys :
        LET f1 == complete_objective(Frame(pm[1]), k)
            f2 == Second(f1, k)
        IN f1.ok =>
              /\ ~f2.ok /\ f2.exc = ""
              /\ f2.msg = "Objective already completed"
              /\ f2.self = f1.self /\ f2.row = f1.row /\ f2.pl = f1.pl

\* C6 amended: after a complete_objective(k) that returned success, a second
\* complete_objective(k) returns a failure and changes neither
\* objectives_completed, nor current_act, nor status (nor anything else of
\* the object, the row or the player); the failure is "Objective already
\* completed" if the instance is still active or in progress when the
\* second call is made, and "Mission is not active" otherwise, in particular
\* when the first call itself completed the mission.  The second call may
\* come directly (first conjunct) or after any other calls (second and
\* third: a stored key is never removed, and is rejected in every state).
C6_SecondRejected ==
    /\ \A k \in RequestKeys :
        LET f1 == complete_objective(Frame(pm[1]), k)
            f2 == Second(f1, k)
        IN f1.ok =>
              /\ k \in f1.self.objectives_completed
              /\ ~f2.ok /\ f2.exc = ""
              /\ f2.msg = IF f1.self.status = "completed"
                          THEN "Mission is not active"
                          ELSE "Objective already completed"
              /\ f2.self = f1.self /\ f2.row = f1.row /\ f2.pl = f1.pl
    /\ \A k \in pm[1].objectives_completed :
        LET f == complete_objective(Frame(pm[1]), k)
        IN /\ ~f.ok /\ f.exc = ""
           /\ f.msg = IF pm[1].status \in {"active", "in_progress"}
                      THEN "Objective already completed"
                      ELSE "Mission is not active"
           /\ f.self = pm[1] /\ f.row = db /\ f.pl = player
    /\ pm[1].objectives_completed \subseteq db.objectives_completed
    /\ \A c \in Calls :
        /\ pm[1].objectives_completed \subseteq c.f.self.objectives_completed
        /\ db.objectives_completed \subseteq c.f.row.objectives_completed

\* a first call that returns success and completes the mission is possible
\* here, and so is one that returns success and leaves it in progress
C6_Witness ==
    /\ \E k \in RequestKeys :
          LET f1 == complete_objective(Frame(pm[1]), k)
          IN f1.ok /\ f1.self.status = "completed"
    /\ \E k \in RequestKeys :
          LET f1 == complete_objective(Frame(pm[1]), k)
          IN f1.ok /\ f1.self.status = "in_progress"

\* the required objectives as the mission data flags them: scout and report
\* in act 1 (loot is flagged required=false), breach in act 2
FlaggedRequired(act) ==
    IF act = 1 THEN {"scout", "report"} ELSE IF act = 2 THEN {"breach"} ELSE {"extract"}

\* C7: on an instance in progress in act k, k in {1,2}, a complete_objective
\* that stores its key leaves current_act at k+1 exactly when every required
\* objective of act k is then in objectives_completed, and at k otherwise;
\* an objective flagged required=false is not asked for.
C7_AdvanceWhenRequiredDone ==
    (pm[1].status = "in_progress" /\ pm[1].current_act \in {1, 2}) =>
        \A k \in RequestKeys :
            LET f == complete_objective(Frame(pm[1]), k)
                act == pm[1].current_act
                next == IF FlaggedRequired(act) \subseteq f.self.objectives_completed
                        THEN act + 1 ELSE act
            IN Recorded(f) =>
                  /\ f.self.current_act = next
                  /\ f.row.current_act = next

C7_Witness ==
    /\ db.status = "in_progress"
    /\ db.current_act = 2
    /\ db.objectives_completed = {"scout", "report"}
    /\ pm[1] = db

\* C8: on an instance in progress in act 3, a complete_objective call after
\* which every required act-3 objective is complete leaves the row with
\* status completed, success_level full, current_act 4 and completed_at set.
C8_Act3CompletionStored ==
    (pm[1].status = "in_progress" /\ pm[1].current_act = 3) =>
        \A k \in RequestKeys :
            LET f == complete_objective(Frame(pm[1]), k)
            IN (Recorded(f)
                  /\ FlaggedRequired(3) \subseteq f.self.objectives_completed) =>
                  /\ f.row.status = "completed"
                  /\ f.row.success_level = "full"
                  /\ f.row.current_act = 4
                  /\ f.row.completed_at = now

\* C9: on an instance of a public mission with reward_xp = R > 0, the call
\* that completes act 3 leaves the player's experience R higher, xp_awarded
\* at R and rewards_claimed true.
C9_XpGrantedOnCompletion ==
    ( /\ pm[1].status = "in_progress" /\ pm[1].current_act = 3
      /\ mission.is_public /\ mission.reward_xp > 0 ) =>
        \A k \in RequestKeys :
            LET f == complete_objective(Frame(pm[1]), k)
            IN (Recorded(f)
                  /\ FlaggedRequired(3) \subseteq f.self.objectives_completed) =>
                  /\ f.pl.experience = player.experience + mission.reward_xp
                  /\ f.self.xp_awarded = mission.reward_xp
                  /\ f.self.rewards_claimed

\* C10: for a mission with is_public false the player's experience and
\* currency stay what they were, no failure consequence is applied, nothing
\* is recorded as awarded and rewards_claimed stays false, whatever was
\* called; and no call changes that.
C10_PrivateGrantsNothing ==
    ~mission.is_public =>
        /\ player.experience = PlayerBase.experience
        /\ player.currency = PlayerBase.currency
        /\ applied = 0
        /\ ~db.rewards_claimed /\ ~pm[1].rewards_claimed
        /\ db.xp_awarded = 0 /\ db.currency_awarded = 0
        /\ db.items_awarded = << >>
        /\ \A c \in Calls :
              c.f.pl = player /\ c.f.fc = applied /\ ~c.f.self.rewards_claimed

C10_Witness ==
    /\ ~mission.is_public
    /\ mission.reward_currency > 0
    /\ db.status = "completed"
    /\ db.success_level = "full"

C10_WitnessFailed ==
    /\ ~mission.is_public
    /\ mission.failure_consequences # {}
    /\ db.status = "failed"

\* the instance is live and its time limit has run out
Expired ==
    /\ pm[1].status \in {"active", "in_progress"}
    /\ pm[1].time_limit_expires # None
    /\ now > pm[1].time_limit_expires

TimedOut(r) ==
    /\ r.status = "failed"
    /\ r.success_level = "failure"
    /\ r.completion_notes = "Time limit exceeded"

\* C11 as claimed: for every mission with a time limit, check_time_limit on
\* an active or in_progress instance after time_limit_expires leaves the
\* instance failed, with success_level failure and the notes "Time limit
\* exceeded", on the object and on the row, and returns True.
C11_ExpiredFails ==
    Expired =>
        LET f == check_time_limit(Frame(pm[1]))
        IN f.ok /\ TimedOut(f.self) /\ TimedOut(f.row)

\* C11: check_time_limit on an active or in_progress instance after
\* time_limit_expires returns True; when the mission has can_fail it leaves
\* the instance failed, with success_level failure, the notes "Time limit
\* exceeded" and completed_at = now, on the object and on the row; when the
\* mission has not, it leaves the object and the row as they were.
C11_ExpiredFailsIfCanFail ==
    Expired =>
        LET f == check_time_limit(Frame(pm[1]))
        IN /\ f.ok
           /\ mission.can_fail =>
                 /\ TimedOut(f.self) /\ TimedOut(f.row)
                 /\ f.self.completed_at = now
                 /\ f.row = f.self
           /\ ~mission.can_fail => f.self = pm[1] /\ f.row = db

C11_Witness ==
    /\ TimedOut(pm[1]) /\ TimedOut(db)
    /\ pm[1].accepted_at # None
    /\ pm[1].completed_at > pm[1].time_limit_expires
    /\ applied = 1

\* C12: check_time_limit returns False and leaves the object, the row and
\* the failure consequences as they were whenever time_limit_expires is
\* null, or now is not later than it, or the status is not active or
\* in_progress; so a second call after the one that failed the instance
\* returns False and rewrites nothing.
C12_NoEffectOtherwise ==
    ~Expired =>
        LET f == check_time_limit(Frame(pm[1]))
        IN /\ ~f.ok
           /\ f.self = pm[1]
           /\ f.row = db
           /\ f.fc = applied

(***************************************************************************)
(* game/models/mission.py: MissionEvent, and                               *)
(* api/v1/mission_views.py: MissionEventTriggerView.post                   *)
(***************************************************************************)
\* the events defined for the mission: is_repeatable defaults to False
MissionEvents ==
    { [key |-> "ambush", name |-> "Ambush", event_type |-> "combat",
       description |-> "Raiders open fire", choices |-> << >>,
       outcomes |-> << >>, is_repeatable |-> FALSE],
      [key |-> "radio", name |-> "Radio call", event_type |-> "choice",
       description |-> "The radio crackles",
       choices |-> << [text |-> "Answer", outcome |-> "answered"],
                      [text |-> "Ignore", outcome |-> "ignored"] >>,
       outcomes |-> << [key |-> "answered", description |-> "Orders come in"],
                       [key |-> "ignored", description |-> "Static"] >>,
       is_repeatable |-> TRUE] }

\* event keys a request may name; "flare" is defined for no mission
EventRequestKeys == { e.key : e \in MissionEvents } \cup {"flare"}

\* the view after it fetched the instance: the response carries the event's
\* description when trigger_event succeeded, its message otherwise
event_trigger_view(f, event_key) ==
    IF ~\E e \in MissionEvents : e.key = event_key
    THEN Return(f, FALSE, "Not found")
    ELSE LET event == CHOOSE e \in MissionEvents : e.key = event_key
             f1 == trigger_event(f, event_key)
         IN IF ~event.is_repeatable /\ InSeq(event_key, f.self.events_triggered)
            THEN Return(f, FALSE, "Event already triggered")
            ELSE IF f1.ok THEN Return(f1, TRUE, event.description)
            ELSE f1

\* a trigger request: the view fetches the row and works on its own object
TriggerEventRequest(h) ==
    /\ h \in Handles
    /\ \E e \in EventRequestKeys :
          Commit(h, event_trigger_view(Frame(db), e))

\* one caller on one instance, with the events of the mission
NextEvents ==
    \/ Accept(1)
    \/ CompleteObjective(1)
    \/ AbandonMission(1)
    \/ TriggerEvent(1)
    \/ TriggerEventRequest(1)
    \/ Reload(1)

SpecEvents == Init /\ [][NextEvents]_vars

Count(x, s) == Cardinality({ i \in 1..Len(s) : s[i] = x })

NonRepeatable == { e.key : e \in { d \in MissionEvents : ~d.is_repeatable } }

Repeatable == { e.key : e \in { d \in MissionEvents : d.is_repeatable } }

\* C13: a key of an event with is_repeatable false occurs at most once in
\* events_triggered, on the object and on the row; when it is already there,
\* trigger_event and the trigger request are both rejected with "Event
\* already triggered" and leave events_triggered as it was.
C13_NonRepeatableOnce ==
    \A k \in NonRepeatable :
        /\ Count(k, pm[1].events_triggered) <= 1
        /\ Count(k, db.events_triggered) <= 1
        /\ InSeq(k, pm[1].events_triggered) =>
              LET f == trigger_event(Frame(pm[1]), k)
              IN /\ ~f.ok /\ f.msg = "Event already triggered"
                 /\ f.self.events_triggered = pm[1].events_triggered
                 /\ f.row = db
        /\ InSeq(k, db.events_triggered) =>
              LET f == event_trigger_view(Frame(db), k)
              IN /\ ~f.ok /\ f.msg = "Event already triggered"
                 /\ f.self.events_triggered = db.events_triggered
                 /\ f.row = db

C13_Witness ==
    /\ InSeq("ambush", db.events_triggered)
    /\ InSeq("radio", db.events_triggered)
    /\ db.status = "in_progress"

\* C14: a trigger request for an event with is_repeatable true on an active
\* or in_progress instance succeeds also when the key is already in
\* events_triggered: the key is appended once more and the response carries
\* the event.
C14_RepeatableAgain ==
    \A k \in Repeatable :
        db.status \in {"active", "in_progress"} =>
            LET f == event_trigger_view(Frame(db), k)
            IN /\ f.ok
               /\ f.row.events_triggered = Append(db.events_triggered, k)
               /\ \E e \in MissionEvents : e.key = k /\ f.msg = e.description

(***************************************************************************)
(* Mission.can_player_start over mission definitions, players and rows     *)
(* that exercise each of its checks                                        *)
(***************************************************************************)
EligMissions ==
    { MissionBase,
      [MissionBase EXCEPT !.key = "veteran", !.required_level = 5,
                          !.required_squad_size = 3],
      [MissionBase EXCEPT !.key = "errand", !.required_squad_size = 1],
      [MissionBase EXCEPT !.key = "patrol", !.is_repeatable = TRUE,
                          !.cooldown_hours = 1],
      [MissionBase EXCEPT !.key = "raid",
                          !.required_missions_completed = << "recon", "supply" >>],
      [MissionBase EXCEPT !.key = "demolition",
                          !.required_items =
                              << [item_key |-> "explosives", quantity |-> 2,
                                  consumed |-> TRUE] >>],
      [MissionBase EXCEPT !.key = "gauntlet", !.required_squad_size = 3,
                          !.required_missions_completed = << "supply" >>,
                          !.required_items =
                              << [item_key |-> "explosives", quantity |-> 3,
                                  consumed |-> FALSE] >>] }

EligPlayers ==
    Players \cup
    { [PlayerBase EXCEPT !.members = << 100 >>],
      [PlayerBase EXCEPT !.explosives = 1] }

\* rows the player may hold: earlier instances of this mission and
\* completed instances of the missions named as prerequisites
EligRows ==
    { [mission |-> mission.key, status |-> "active", completed_at |-> None],
      [mission |-> mission.key, status |-> "completed", completed_at |-> 0],
      [mission |-> mission.key, status |-> "abandoned", completed_at |-> 0],
      [mission |-> "recon", status |-> "completed", completed_at |-> 0],
      [mission |-> "supply", status |-> "completed", completed_at |-> 0] }

InitElig ==
    /\ mission \in EligMissions
    /\ player \in EligPlayers
    /\ history \in SUBSET EligRows
    /\ db = NoRow
    /\ db2 = NoRow
    /\ pm = [h \in Handles |-> NoRow]
    /\ now = 0
    /\ applied = 0
    /\ req = [h \in Handles |-> IdleRequest]

\* mission.can_player_start(player), as the mission views call it
CheckEligibility ==
    /\ LET c == can_player_start(player, history)
       IN req' = [req EXCEPT ![1] = [pc |-> "checked", key |-> c.msg,
                                     ok |-> c.ok, exc |-> c.exc]]
    /\ UNCHANGED <<mission, player, pm, db, now, applied, db2, history>>

NextElig ==
    \/ CheckEligibility
    \/ Tick

SpecElig == InitElig /\ [][NextElig]_vars

\* the player's items with the given key
Inventory(pl, item_key) == IF item_key = "explosives" THEN pl.explosives ELSE 0

Quantity(item_req) ==
    IF "quantity" \in DOMAIN item_req THEN item_req.quantity ELSE 1

\* the seven checks in their order: the numbers of those that fail
FailingChecks(pl, rows) ==
    LET mine == { r \in rows : r.mission = mission.key }
        done == { r \in mine : r.status = "completed" }
        alive == Cardinality(alive_members(pl))
    IN  { n \in 1..7 :
            \/ n = 1 /\ pl.level < mission.required_level
            \/ n = 2 /\ IF pl.has_squad THEN alive < mission.required_squad_size
                        ELSE mission.required_squad_size > 1
            \/ n = 3 /\ \E r \in mine : r.status \in {"active", "in_progress"}
            \/ n = 4 /\ ~mission.is_repeatable /\ done # {}
            \/ n = 5 /\ mission.is_repeatable /\ done # {}
                     /\ \E r \in done :
                           now < r.completed_at + mission.cooldown_hours * 3600
            \/ n = 6 /\ \E i \in 1..Len(mission.required_missions_completed) :
                           ~\E r \in rows :
                               /\ r.mission = mission.required_missions_completed[i]
                               /\ r.status = "completed"
            \/ n = 7 /\ \E i \in 1..Len(mission.required_items) :
                           Inventory(pl, mission.required_items[i].item_key)
                             < Quantity(mission.required_items[i]) }

\* the check a reason string belongs to
CheckOf(msg) ==
    CASE msg = "Requires level " \o ToString(mission.required_level) -> 1
      [] msg = "Requires " \o ToString(mission.required_squad_size)
                 \o " squad members" -> 2
      [] msg = "Mission already in progress" -> 3
      [] msg = "Mission already completed" -> 4
      [] \E h \in 0..mission.cooldown_hours :
             msg = "On cooldown for " \o ToString(h) \o " more hours" -> 5
      [] \E i \in 1..Len(mission.required_missions_completed) :
             msg = "Requires completion of: "
                     \o mission.required_missions_completed[i] -> 6
      [] \E i \in 1..Len(mission.required_items) :
             msg = "Requires " \o ToString(Quantity(mission.required_items[i]))
                     \o "x " \o mission.required_items[i].item_key -> 7
      [] OTHER -> 0

\* C15: for every player, mission and set of rows can_player_start returns
\* a result; it returns True exactly when none of the seven checks fails,
\* and otherwise False with the reason of the lowest-numbered failing check.
C15_FirstFailingReason ==
    LET c == can_player_start(player, history)
        failing == FailingChecks(player, history)
    IN /\ c.exc = ""
       /\ c.ok <=> failing = {}
       /\ ~c.ok => /\ CheckOf(c.msg) \in failing
                   /\ \A n \in failing : CheckOf(c.msg) <= n

(***************************************************************************)
(* api/v1/mission_views.py: MissionAcceptView.post.  Each accept makes a   *)
(* new instance: the first has the row db and the object pm[1], the        *)
(* second the row db2 and the object pm[2].                                *)
(***************************************************************************)
AcceptMissions ==
    { [MissionBase EXCEPT !.key = "courier", !.reward_xp = 0,
                          !.time_limit = None],
      [MissionBase EXCEPT !.key = "veteran", !.required_level = 5,
                          !.reward_xp = 0, !.time_limit = None],
      [MissionBase EXCEPT !.key = "demolition", !.reward_xp = 0,
                          !.time_limit = None,
                          !.required_items =
                              << [item_key |-> "explosives", quantity |-> 2,
                                  consumed |-> TRUE] >>] }

\* the keys of the objectives with required true
AcceptKeys == {"scout", "report", "breach", "extract"}

RowAt(h) == IF h = 1 THEN db ELSE db2

FrameAt(h) == IF h = 1 THEN Frame(pm[1]) ELSE Frame2(pm[2])

\* f is the frame of an instance not yet created; f.rest and the player are
\* what the view reads.  An exception raised by accept() leaves the created
\* row behind; a failure returned by accept() deletes it.
accept_view(f) ==
    LET rows == player_missions(f)
        existing == \E r \in rows : /\ r.mission = mission.key
                                    /\ r.status \in {"active", "in_progress"}
        c == can_player_start(f.pl, rows)
        created == [f EXCEPT !.self = NewPlayerMission,
                             !.row = NewPlayerMission]
        f1 == accept(created)
    IN IF existing THEN Return(f, FALSE, "Mission already in progress")
       ELSE IF c.exc # "" THEN Raise(f, c.exc)
       ELSE IF ~c.ok THEN Return(f, FALSE, c.msg)
       ELSE IF f1.exc # "" \/ f1.ok THEN f1
       ELSE Return([f1 EXCEPT !.self = NoRow, !.row = NoRow], FALSE, f1.msg)

CommitAt(h, f) ==
    /\ pm' = [pm EXCEPT ![h] = f.self]
    /\ IF h = 1 THEN db' = f.row /\ db2' = db2
                ELSE db2' = f.row /\ db' = db
    /\ player' = f.pl
    /\ applied' = f.fc
    /\ UNCHANGED <<mission, now, req, history>>

AcceptRequest(h) ==
    /\ RowAt(h).status = "none"
    /\ CommitAt(h, accept_view(FrameAt(h)))

CompleteObjectiveOf(h) ==
    /\ pm[h].status # "none"
    /\ \E k \in AcceptKeys :
          CommitAt(h, complete_objective(FrameAt(h), k))

AbandonMissionOf(h) ==
    /\ pm[h].status # "none"
    /\ CommitAt(h, abandon_mission(FrameAt(h)))

FailMissionOf(h) ==
    /\ pm[h].status # "none"
    /\ applied < MaxApplied
    /\ CommitAt(h, fail_mission(FrameAt(h), "Squad lost"))

InitAccept ==
    /\ mission \in AcceptMissions
    /\ player \in Players
    /\ db = NoRow
    /\ db2 = NoRow
    /\ pm = [h \in Handles |-> NoRow]
    /\ now = 0
    /\ applied = 0
    /\ req = [h \in Handles |-> IdleRequest]
    /\ history = {}

NextAccept ==
    \/ \E h \in Handles : AcceptRequest(h)
    \/ \E h \in Handles : CompleteObjectiveOf(h)
    \/ \E h \in Handles : AbandonMissionOf(h)
    \/ \E h \in Handles : FailMissionOf(h)

SpecAccept == InitAccept /\ [][NextAccept]_vars

Live == {"active", "in_progress"}

\* the quantity accept() is to remove from the inventory
Consumed ==
    IF \E i \in 1..Len(mission.required_items) :
           mission.required_items[i].consumed
    THEN Quantity(mission.required_items[1])
    ELSE 0

\* C16: when the player fails one of the seven checks, an accept request
\* (and accept() on the instance it would create) returns a failure with
\* the reason of a failing check and changes nothing: no row is left, no
\* instance is active, no timestamp is set, the player's record and
\* inventory are as before.
C16_IneligibleAcceptRejected ==
    \A h \in Handles :
        LET rows == player_missions(FrameAt(h))
            failing == FailingChecks(player, rows)
            f == accept_view(FrameAt(h))
        IN (RowAt(h).status = "none" /\ failing # {}) =>
              /\ ~f.ok /\ f.exc = ""
              /\ CheckOf(f.msg) \in failing
              /\ f.self = NoRow /\ f.row = NoRow
              /\ f.pl = player

C18_OneLiveInstance ==
    ~(db.status \in Live /\ db2.status \in Live)

\* _complete_mission alone sets current_act to 4, together with status
\* completed
ReachedCompleted(r) == r.current_act = 4

\* C19: once an instance of a mission with is_repeatable false has reached
\* completed, no accept request for the mission gets past the checks: no
\* new instance becomes active.
C19_NoAcceptAfterCompleted ==
    \A h \in Handles :
        LET other == RowAt(3 - h)
            f == accept_view(FrameAt(h))
        IN ( /\ ~mission.is_repeatable
             /\ ReachedCompleted(other)
             /\ RowAt(h).status = "none" )
           => /\ ~f.ok
              /\ f.self.status \notin Live
              /\ f.row.status \notin Live

\* C20: in every state each of accept, complete_objective, trigger_event,
\* make_choice, abandon_mission, fail_mission and check_time_limit, for
\* every input, ends by returning its result: none raises.
C20_NoUncaughtException ==
    \A c \in Calls : c.f.exc = ""

(***************************************************************************)
(* A settlement cut short.  _award_rewards writes the player               *)
(* (self.player.save(), line 234) before it writes the instance            *)
(* (self.save(), line 268); each save() is its own commit (no              *)
(* transaction.atomic, ATOMIC_REQUESTS off).  When the process stops       *)
(* between the two, the player row holds the grant, the instance row is    *)
(* as complete_objective saved it (line 169) and the object is gone.       *)
(***************************************************************************)
SettlementInterrupted(h) ==
    /\ h \in Handles
    /\ \E k \in RequestKeys :
          LET f == Frame(pm[h])
              g == complete_objective(f, k)
              stored == [f.self EXCEPT !.objectives_completed = @ \cup {k}]
          IN /\ g.pl # f.pl
             /\ pm' = [pm EXCEPT ![h] = stored]
             /\ db' = stored
             /\ player' = g.pl
    /\ UNCHANGED <<mission, now, applied, req, db2, history>>

\* one caller, whose settlement may be cut short and tried again
NextSettle ==
    \/ Accept(1)
    \/ CompleteObjective(1)
    \/ Reload(1)
    \/ SettlementInterrupted(1)

SpecSettle == Init /\ [][NextSettle]_vars

\* C21: rewards_claimed is set after every grant, and over settlements that
\* were cut short and tried again the XP and the currency granted for the
\* instance never exceed the mission's reward_xp and reward_currency.
C21_RetryGrantsOnce ==
    /\ player.experience <= PlayerBase.experience + mission.reward_xp
    /\ player.currency <= PlayerBase.currency + mission.reward_currency
    /\ db.rewards_claimed =>
          /\ db.xp_awarded = mission.reward_xp
          /\ db.currency_awarded = mission.reward_currency

\* C22: over every sequence of fail_mission and check_time_limit calls on
\* the instance _apply_failure_consequences is invoked at most once, and
\* only for a public mission with failure consequences.
C22_ConsequencesOnce ==
    /\ applied <= 1
    /\ applied > 0 => mission.is_public /\ mission.failure_consequences # {}

SuccessLevelFits(r) ==
    /\ r.success_level # "null" => r.status \in {"completed", "failed"}
    /\ r.status = "completed" => r.success_level = "full"
    /\ r.status = "failed" => r.success_level = "failure"

\* C23: on the object and on the row success_level is set only when the
\* status is completed or failed; it is full on a completed instance and
\* failure on a failed one.
C23_SuccessLevelOnlyTerminal ==
    SuccessLevelFits(pm[1]) /\ SuccessLevelFits(db)

(***************************************************************************)
(* api/v1/mission_views.py: MissionChoiceView.post                         *)
(***************************************************************************)
MaxLog == 2

\* the 'choice' of a request; "" is a request without one
ChoiceTexts == {"Answer", "Ignore", "Run", ""}

\* the response is 'Choice recorded' whatever make_choice returned
choice_view(f, event_key, choice_text) ==
    IF choice_text = ""
    THEN Return(f, FALSE, "Choice not provided")
    ELSE IF ~\E e \in MissionEvents : e.key = event_key
    THEN Return(f, FALSE, "Not found")
    ELSE LET event == CHOOSE e \in MissionEvents : e.key = event_key
             found == { i \in 1..Len(event.choices) :
                          event.choices[i].text = choice_text }
             choice_data == event.choices[CHOOSE i \in found :
                                              \A j \in found : i <= j]
         IN IF found = {}
            THEN Return(f, FALSE, "Invalid choice")
            ELSE Return(make_choice(f, event_key, choice_text,
                                    choice_data.outcome),
                        TRUE, "Choice recorded")

\* a choice request: the view fetches the row and works on its own object
ChoiceRequest(h) ==
    /\ h \in Handles
    /\ Len(db.choices_made) < MaxLog
    /\ \E e \in EventRequestKeys, t \in ChoiceTexts :
          Commit(h, choice_view(Frame(db), e, t))

NextChoices ==
    \/ Accept(1)
    \/ CompleteObjective(1)
    \/ AbandonMission(1)
    \/ ChoiceRequest(1)
    \/ Reload(1)
    \/ Tick

SpecChoices == Init /\ [][NextChoices]_vars

IsPrefix(s, t) == Len(s) <= Len(t) /\ SubSeq(t, 1, Len(s)) = s

\* what one step may do to a log of choices: keep it, or append one entry
Appended(s, t) == t = s \/ (Len(t) = Len(s) + 1 /\ IsPrefix(s, t))

\* C24: every step keeps the entries of choices_made, on the object and on
\* the row, in place and unchanged and appends at most one; a choice
\* request with a choice of the event appends exactly one entry with
\* event_key, choice, outcome and timestamp at the end, also when the event
\* was answered before.
C24_ChoicesAppendOnly ==
    /\ [][ /\ Appended(db.choices_made, db'.choices_made)
           /\ pm'[1].choices_made = db'.choices_made ]_vars
    /\ [] \A e \in MissionEvents : \A i \in 1..Len(e.choices) :
            LET f == choice_view(Frame(db), e.key, e.choices[i].text)
            IN /\ f.ok
               /\ f.row.choices_made =
                     Append(db.choices_made,
                            [event_key |-> e.key,
                             choice |-> e.choices[i].text,
                             outcome |-> e.choices[i].outcome,
                             timestamp |-> ToString(now)])
               /\ f.self = f.row

C24_Witness ==
    /\ Len(db.choices_made) = 2
    /\ db.choices_made[1].event_key = db.choices_made[2].event_key
    /\ db.choices_made[1].choice # db.choices_made[2].choice
    /\ db.choices_made[1].timestamp # db.choices_made[2].timestamp
    /\ db.status = "abandoned"

\* C25: abandon_mission for a mission with can_abandon false and
\* fail_mission for a mission with can_fail false return a failure and leave
\* the object and the row (status, completed_at, success_level,
\* completion_notes and all else) as they were; such an instance is never
\* abandoned, respectively never failed.
C25_FlagsGuard ==
    /\ ~mission.can_abandon =>
          /\ pm[1].status # "abandoned" /\ db.status # "abandoned"
          /\ LET f == abandon_mission(Frame(pm[1]))
             IN /\ ~f.ok /\ f.exc = ""
                /\ f.msg = "This mission cannot be abandoned"
                /\ f.self = pm[1] /\ f.row = db
    /\ ~mission.can_fail =>
          /\ pm[1].status # "failed" /\ db.status # "failed"
          /\ LET f == fail_mission(Frame(pm[1]), "Squad lost")
             IN /\ ~f.ok /\ f.exc = ""
                /\ f.msg = "This mission cannot be failed"
                /\ f.self = pm[1] /\ f.row = db /\ f.fc = applied

C25_Witness ==
    /\ ~mission.can_abandon
    /\ db.status = "in_progress"
    /\ pm[1].status = "in_progress"
    /\ now > 0

(***************************************************************************)
(* Two requests of one player, each on an instance of its own (rows db and *)
(* db2, of two missions with the same definition).  self.player is loaded  *)
(* when _award_rewards first reads it; self.player.currency += ... and     *)
(* self.player.save() then work on that copy and write all of its fields.  *)
(* Nothing locks the player row, so the load of one request and the save   *)
(* of the other interleave.                                                *)
(***************************************************************************)
\* the calls that bring an accepted instance to act 3
ToActThree == << "scout", "report", "breach" >>

InitTwo ==
    /\ mission \in Missions
    /\ now = 0
    /\ \E p \in Players :
          LET r == Played(accept(FrameOf(NewPlayerMission, NewPlayerMission,
                                         p, 0)),
                          ToActThree)
          IN /\ db = r.row
             /\ db2 = r.row
             /\ player = r.pl
             /\ applied = r.fc
    /\ pm = [h \in Handles |-> NewPlayerMission]
    /\ req = [h \in Handles |->
                [pc |-> "idle", key |-> "", ok |-> FALSE, exc |-> "",
                 pl |-> player]]
    /\ history = {}

\* get_object_or_404(PlayerMission, id=..., player=player)
FetchOwn(h) ==
    /\ req[h].pc = "idle"
    /\ \E k \in RequestKeys :
          req' = [req EXCEPT ![h] = [@ EXCEPT !.pc = "fetched", !.key = k]]
    /\ pm' = [pm EXCEPT ![h] = RowAt(h)]
    /\ UNCHANGED <<mission, player, db, now, applied, db2, history>>

\* self.player: the request's own copy of the player row
LoadPlayer(h) ==
    /\ req[h].pc = "fetched"
    /\ req' = [req EXCEPT ![h] = [@ EXCEPT !.pc = "loaded", !.pl = player]]
    /\ UNCHANGED <<mission, player, pm, db, now, applied, db2, history>>

\* the rest of the request; the player row is written only by
\* self.player.save(), that is when the copy was changed
RunOwn(h) ==
    /\ req[h].pc = "loaded"
    /\ LET f == objective_complete_view(
                    FrameOf(pm[h], RowAt(h), req[h].pl, applied), req[h].key)
       IN /\ pm' = [pm EXCEPT ![h] = f.self]
          /\ IF h = 1 THEN db' = f.row /\ db2' = db2
                      ELSE db2' = f.row /\ db' = db
          /\ player' = IF f.pl # req[h].pl THEN f.pl ELSE player
          /\ applied' = f.fc
          /\ req' = [req EXCEPT ![h] = [@ EXCEPT !.pc = "done", !.ok = f.ok,
                                                 !.exc = f.exc, !.pl = f.pl]]
    /\ UNCHANGED <<mission, now, history>>

NextTwo ==
    \/ \E h \in Handles : FetchOwn(h)
    \/ \E h \in Handles : LoadPlayer(h)
    \/ \E h \in Handles : RunOwn(h)

SpecTwo == InitTwo /\ [][NextTwo]_vars

\* C26: when both instances have been completed and settled by the two
\* requests, the player's currency and experience have risen by the rewards
\* of both.
C26_BothGrantsKept ==
    ( /\ db.status = "completed" /\ db.rewards_claimed
      /\ db2.status = "completed" /\ db2.rewards_claimed )
    => /\ player.currency =
             PlayerBase.currency + db.currency_awarded + db2.currency_awarded
       /\ player.experience =
             PlayerBase.experience + db.xp_awarded + db2.xp_awarded

\* C27: on an active instance at current_act 0 every complete_objective
\* that stores its key, whatever the key, leaves the instance in_progress
\* at current_act 1 with started_at = now, on the object and on the row;
\* started_at is written by no other call and, once set, is changed by none.
C27_HookStartsActOne ==
    /\ (pm[1].status = "active" /\ pm[1].current_act = 0) =>
          \A k \in RequestKeys :
              LET f == complete_objective(Frame(pm[1]), k)
              IN /\ Recorded(f)
                 /\ f.self.status = "in_progress"
                 /\ f.self.current_act = 1
                 /\ f.self.started_at = now
                 /\ f.row = f.self
    /\ \A c \in Calls :
          /\ pm[1].started_at # None => c.f.self.started_at = pm[1].started_at
          /\ db.started_at # None => c.f.row.started_at = db.started_at
          /\ c.f.self.started_at # pm[1].started_at =>
                /\ c.op = "complete_objective"
                /\ pm[1].status = "active" /\ pm[1].current_act = 0
    /\ pm[1].started_at # None => pm[1].current_act >= 1
    /\ db.started_at # None => db.current_act >= 1

C27_Witness ==
    /\ db.status = "completed"
    /\ db.started_at # None
    /\ db.started_at < db.completed_at
    /\ pm[1].started_at = db.started_at

(***************************************************************************)
(* The objectives of a mission completed once each, act by act, by one     *)
(* caller on the accepted object                                           *)
(***************************************************************************)
Required(k) == [key |-> k, required |-> TRUE]

\* missions that differ in how many objectives their acts define
OrderMissions ==
    { [MissionBase EXCEPT !.key = "courier", !.reward_xp = 0,
                          !.act1_objectives = << Required("scout") >>],
      [MissionBase EXCEPT !.key = "supply", !.reward_xp = 0],
      [MissionBase EXCEPT !.key = "memory", !.reward_xp = 0,
                          !.is_public = FALSE,
                          !.act1_objectives = << Required("scout") >>,
                          !.act2_objectives =
                              << Required("breach"), Required("report") >>],
      [MissionBase EXCEPT !.key = "relay", !.reward_xp = 0,
                          !.act1_objectives =
                              << Required("scout"), Required("report") >>],
      [MissionBase EXCEPT !.key = "vigil", !.reward_xp = 0,
                          !.act1_objectives = << Required("scout") >>,
                          !.act3_objectives =
                              << Required("extract"),
                                 [key |-> "loot", required |-> FALSE] >>] }

ActKeys(objs) == { objs[i].key : i \in 1..Len(objs) }

\* the keys of the first act that still has an objective to complete
NextKeys(done) ==
    IF ActKeys(mission.act1_objectives) \ done # {}
    THEN ActKeys(mission.act1_objectives) \ done
    ELSE IF ActKeys(mission.act2_objectives) \ done # {}
    THEN ActKeys(mission.act2_objectives) \ done
    ELSE ActKeys(mission.act3_objectives) \ done

InitOrder ==
    /\ mission \in OrderMissions
    /\ now = 0
    /\ \E p \in Players :
          LET r == accept(FrameOf(NewPlayerMission, NewPlayerMission, p, 0))
          IN /\ pm = [h \in Handles |-> r.self]
             /\ db = r.row
             /\ player = r.pl
             /\ applied = r.fc
    /\ req = [h \in Handles |-> IdleRequest]
    /\ db2 = NoRow
    /\ history = {}

CompleteNext(h) ==
    /\ h \in Handles
    /\ \E k \in NextKeys(pm[h].objectives_completed) :
          Commit(h, complete_objective(Frame(pm[h]), k))

NextOrder ==
    \/ CompleteNext(1)
    \/ Tick

SpecOrder == InitOrder /\ [][NextOrder]_vars

AllObjectives ==
    ActKeys(mission.act1_objectives) \cup ActKeys(mission.act2_objectives)
      \cup ActKeys(mission.act3_objectives)

\* C28: when every objective of the mission has been completed once, act by
\* act, on the accepted instance, the instance is completed, on the object
\* and on the row; it is not in_progress with every required objective of
\* its current act complete.
C28_NeverStranded ==
    (pm[1].status # "available" /\ pm[1].objectives_completed = AllObjectives)
    => /\ pm[1].status = "completed"
       /\ db.status = "completed"

\* C29: one complete_objective call leaves current_act where it was or raises
\* it by exactly one (0 to 1, k to k+1, 3 to 4), also when the act it enters
\* has no required objective left to complete; the row holds what it held or
\* what the call left on the object.
C29_OneActPerCall ==
    \A k \in RequestKeys :
        LET g == complete_objective(Frame(pm[1]), k)
        IN /\ g.self.current_act \in
                  {pm[1].current_act, pm[1].current_act + 1}
           /\ g.row.current_act \in {db.current_act, g.self.current_act}

\* act 2 was entered with its only required objective already recorded, and
\* the instance stays in act 2
C29_Witness ==
    /\ pm[1].status = "in_progress"
    /\ pm[1].current_act = 2
    /\ db.current_act = 2
    /\ \A i \in 1..Len(mission.act2_objectives) :
          mission.act2_objectives[i].key \in pm[1].objectives_completed
    /\ \E k \in RequestKeys :
          complete_objective(Frame(pm[1]), k).self.current_act = 3

(***************************************************************************)
(* The progress summary                                                    *)
(***************************************************************************)
get_total_objectives ==
    Len(mission.act1_objectives) + Len(mission.act2_objectives)
      + Len(mission.act3_objectives)

\* total_objectives and completed_count are computed first; the dictionary is
\* then built entry by entry, and past the hook its 'act_name' entry calls
\* Mission.get_act_title, which Mission does not define: the call raises
\* AttributeError before 'progress_percent' is computed
get_progress_summary(f) ==
    LET total_objectives == get_total_objectives
        completed_count == Cardinality(f.self.objectives_completed)
    IN [ exc |-> IF f.self.current_act > 0 THEN "AttributeError" ELSE "",
         objectives_completed |-> completed_count,
         total_objectives |-> total_objectives,
         progress_percent |->
             IF f.self.current_act > 0 THEN None
             ELSE IF total_objectives > 0
                  THEN (completed_count * 100) \div total_objectives
                  ELSE 0 ]

\* C30: in every reachable state the summary's count of completed objectives
\* is at most the mission's total, the percentage it returns lies in 0..100,
\* and every key recorded in objectives_completed is an objective the
\* mission defines.
C30_ProgressBounded ==
    LET s == get_progress_summary(Frame(pm[1]))
    IN /\ s.objectives_completed <= s.total_objectives
       /\ s.exc = "" => s.progress_percent \in 0..100
       /\ pm[1].objectives_completed \subseteq AllObjectives

====
